---- MODULE Spec2Model ----
(***************************************************************************)
(* Clip Merger (src/App.tsx): a folder of video clips is merged into one   *)
(* recording.  The React state (files, folderName, status, downloadUrl,    *)
(* finalMimeType), the refs (canvas, audioContextRef, processingRef) and   *)
(* the closure of every startProcessing invocation (recorder, audio        *)
(* context, chunk log, playback sessions) are the state; every handler of  *)
(* the component and every media event is one action.                      *)
(***************************************************************************)
EXTENDS Integers, Sequences, FiniteSets, TLC

(***************************************************************************)
(* Bounds of the model.                                                    *)
(***************************************************************************)
\* startProcessing invocations that pass the guard, over one behaviour
MaxRuns == 2
\* files of one folder selection
MaxFiles == 2
\* dataavailable events of one recorder before its stop
MaxChunks == 1

\* the longest clip list of the progress specification
MaxClips == 4

(***************************************************************************)
(* The files a folder selection can hold: name (as characters), MIME type  *)
(* and webkitRelativePath folder, and the native resolution a video file   *)
(* reports at loadedmetadata.                                              *)
(***************************************************************************)
FileIds == 1 .. MaxFiles + 1

FileName(f) ==
  CASE f = 1 -> <<"c", "1", "0">>
    [] f = 2 -> <<"C", "2">>
    [] f = 3 -> <<"b", "9">>
    [] f = 4 -> <<"c", "1">>
    [] OTHER -> <<"c", "3">>

FileType(f) == IF f = 3 THEN "text/plain" ELSE "video/mp4"

FileFolder(f) == "clips"

VideoWidth(f) == IF f = 2 THEN 1280 ELSE 640

VideoHeight(f) == IF f = 2 THEN 720 ELSE 360

\* every file list the input element can deliver: distinct files, any order
FileLists ==
  { s \in UNION { [1 .. n -> FileIds] : n \in 0 .. MaxFiles } :
      \A i, j \in DOMAIN s : i # j => s[i] # s[j] }

(***************************************************************************)
(* localeCompare(b, undefined, {numeric: true, sensitivity: 'base'}):      *)
(* digit runs compare by value, letters by base letter (case ignored),     *)
(* digits before letters, a proper prefix first.                           *)
(***************************************************************************)
Digits == {"0", "1", "2", "3", "4", "5", "6", "7", "8", "9"}

DigitVal(ch) ==
  CASE ch = "0" -> 0 [] ch = "1" -> 1 [] ch = "2" -> 2 [] ch = "3" -> 3
    [] ch = "4" -> 4 [] ch = "5" -> 5 [] ch = "6" -> 6 [] ch = "7" -> 7
    [] ch = "8" -> 8 [] OTHER -> 9

\* rank of a non-digit character at base sensitivity
BaseRank(ch) ==
  CASE ch \in {"a", "A"} -> 1
    [] ch \in {"b", "B"} -> 2
    [] ch \in {"c", "C"} -> 3
    [] OTHER -> 4

\* length of the digit run of s that starts at position i
RECURSIVE DigitRun(_, _)
DigitRun(s, i) ==
  IF i > Len(s) \/ s[i] \notin Digits THEN 0 ELSE 1 + DigitRun(s, i + 1)

\* value of the n digits of s from position i, after the value acc
RECURSIVE RunValue(_, _, _, _)
RunValue(s, i, n, acc) ==
  IF n = 0 THEN acc ELSE RunValue(s, i + 1, n - 1, acc * 10 + DigitVal(s[i]))

Sign(x) == IF x < 0 THEN -1 ELSE IF x > 0 THEN 1 ELSE 0

\* the comparison of a from position i with b from position j: -1, 0 or 1
RECURSIVE CompareFrom(_, _, _, _)
CompareFrom(a, i, b, j) ==
  IF i > Len(a) /\ j > Len(b) THEN 0
  ELSE IF i > Len(a) THEN -1
  ELSE IF j > Len(b) THEN 1
  ELSE LET da == DigitRun(a, i)
           db == DigitRun(b, j)
       IN IF da > 0 /\ db > 0
          THEN LET va == RunValue(a, i, da, 0)
                   vb == RunValue(b, j, db, 0)
               IN IF va # vb THEN Sign(va - vb)
                  ELSE CompareFrom(a, i + da, b, j + db)
          ELSE IF da > 0 THEN -1
          ELSE IF db > 0 THEN 1
          ELSE IF BaseRank(a[i]) # BaseRank(b[j])
               THEN Sign(BaseRank(a[i]) - BaseRank(b[j]))
               ELSE CompareFrom(a, i + 1, b, j + 1)

\* a comparison without the numeric option: character by character,
\* digits before letters
RECURSIVE PlainFrom(_, _, _)
PlainFrom(a, b, i) ==
  LET rank(ch) == IF ch \in Digits THEN DigitVal(ch) - 10 ELSE BaseRank(ch)
  IN IF i > Len(a) /\ i > Len(b) THEN 0
     ELSE IF i > Len(a) THEN -1
     ELSE IF i > Len(b) THEN 1
     ELSE IF rank(a[i]) # rank(b[i]) THEN Sign(rank(a[i]) - rank(b[i]))
     ELSE PlainFrom(a, b, i + 1)

localeComparePlain(a, b) == PlainFrom(a, b, 1)

\* String.prototype.localeCompare(b, undefined, {numeric, sensitivity: base})
localeCompare(a, b) == CompareFrom(a, 1, b, 1)

\* Array.prototype.filter: the video files of a list, in their order
RECURSIVE FilterVideo(_)
FilterVideo(s) ==
  IF s = <<>> THEN <<>>
  ELSE IF FileType(Head(s)) = "video/mp4"
       THEN <<Head(s)>> \o FilterVideo(Tail(s))
       ELSE FilterVideo(Tail(s))

\* x placed after every element of the sorted list that does not follow it
RECURSIVE InsertSorted(_, _)
InsertSorted(sorted, x) ==
  IF sorted = <<>> THEN <<x>>
  ELSE IF localeCompare(FileName(Head(sorted)), FileName(x)) <= 0
       THEN <<Head(sorted)>> \o InsertSorted(Tail(sorted), x)
       ELSE <<x>> \o sorted

\* Array.prototype.sort with the comparator: a stable sort
RECURSIVE SortFiles(_)
SortFiles(s) ==
  IF s = <<>> THEN <<>>
  ELSE InsertSorted(SortFiles(SubSeq(s, 1, Len(s) - 1)), s[Len(s)])

(***************************************************************************)
(* Constants of the component.                                             *)
(***************************************************************************)
PREFERRED_FORMAT == "video/mp4; codecs=avc1.42E01E, mp4a.40.2"

PLAIN_MP4 == "video/mp4"

FALLBACK_FORMAT == "video/webm; codecs=vp8, opus"

Formats == {PREFERRED_FORMAT, PLAIN_MP4, FALLBACK_FORMAT}

\* the runtimes of the model: one that records every format, one that records none
Runtimes == {Formats, {}}

\* the width and height of a canvas element that was never sized
DefaultCanvasWidth == 300

DefaultCanvasHeight == 150

(***************************************************************************)
(* State.                                                                  *)
(***************************************************************************)
VARIABLES
  files,            \* useState: the clip list (file ids)
  folderName,       \* useState
  status,           \* useState: [state, message, progress]
  downloadUrl,      \* useState: 0 (null) or the run whose blob the URL names
  finalMimeType,    \* useState
  canvas,           \* canvasRef.current: [width, height, frame]
  audioContextRef,  \* useRef: 0 (null) or the run whose AudioContext it holds
  processingRef,    \* useRef
  supported,        \* the formats MediaRecorder.isTypeSupported accepts
  runs,             \* the closure of every startProcessing invocation
  lastCall          \* how the latest startProcessing invocation left

vars ==
  <<files, folderName, status, downloadUrl, finalMimeType, canvas,
    audioContextRef, processingRef, supported, runs, lastCall>>

RunIds == 1 .. MaxRuns

Msg(kind, text, k, n, clip) ==
  [kind |-> kind, text |-> text, k |-> k, n |-> n, clip |-> clip]

NoMessage == Msg("empty", "", 0, 0, 0)

Status(state, message, progress) ==
  [state |-> state, message |-> message, progress |-> progress]

NoBlob == [parts |-> <<>>, type |-> ""]

\* a startProcessing closure before the invocation
NoRun ==
  [pc |-> "unused", files |-> <<>>, mimeType |-> "", audioCtx |-> "none",
   recorder |-> "none", stopPending |-> FALSE, chunks |-> <<>>, emitted |-> 0,
   blob |-> NoBlob, dimensionsSet |-> FALSE, i |-> 0, sess |-> <<>>,
   exit |-> "none"]

\* the promise executor: a new video element, attached, its object URL live
NewSession(f) ==
  [clip |-> f, stage |-> "loading", attached |-> TRUE, urlLive |-> TRUE,
   raf |-> FALSE, connected |-> FALSE]

nRuns == Cardinality({r \in RunIds : runs[r].pc # "unused"})

Cur(run) == run.sess[Len(run.sess)]

SetCur(run, s) == [run EXCEPT !.sess[Len(run.sess)] = s]

\* a run that awaits the promise of its current session
Awaiting(r) == runs[r].pc = "awaitClip"

Init ==
  /\ files = <<>>
  /\ folderName = "video"
  /\ status = Status("idle", NoMessage, 0)
  /\ downloadUrl = 0
  /\ finalMimeType = ""
  /\ canvas = [width |-> DefaultCanvasWidth, height |-> DefaultCanvasHeight,
               frame |-> <<0, 0>>]
  /\ audioContextRef = 0
  /\ processingRef = FALSE
  /\ supported \in Runtimes
  /\ runs = [r \in RunIds |-> NoRun]
  /\ lastCall = "none"

(***************************************************************************)
(* useEffect(..., [downloadUrl]): when a handler changed downloadUrl, the  *)
(* cleanup of the previous effect runs after the render: it revokes the    *)
(* URL it closed over (the blob is released) and closes the context        *)
(* audioContextRef holds, unless it is closed.                             *)
(***************************************************************************)
RevokeObjectURL(rs, url) ==
  IF url # 0 THEN [rs EXCEPT ![url].blob = NoBlob] ELSE rs

CloseRef(rs, ref) ==
  IF ref # 0 /\ rs[ref].audioCtx # "closed"
  THEN [rs EXCEPT ![ref].audioCtx = "closed"]
  ELSE rs

EffectCleanup(rs, oldUrl, newUrl, ref) ==
  IF oldUrl # newUrl THEN CloseRef(RevokeObjectURL(rs, oldUrl), ref) ELSE rs

(***************************************************************************)
(* handleFolderSelect                                                      *)
(***************************************************************************)
ExtractFolderName(videoFiles) ==
  IF FileFolder(videoFiles[1]) = "" THEN "merged_video"
  ELSE FileFolder(videoFiles[1])

handleFolderSelect(fileList) ==
  /\ Len(fileList) > 0
  /\ LET videoFiles == SortFiles(FilterVideo(fileList))
     IN IF Len(videoFiles) = 0
        THEN /\ status' = Status("error", Msg("novideo", "No video files found in the selected folder.", 0, 0, 0), 0)
             /\ UNCHANGED <<files, folderName, downloadUrl, runs>>
        ELSE /\ files' = videoFiles
             /\ folderName' = ExtractFolderName(videoFiles)
             /\ downloadUrl' = 0
             /\ status' = Status("idle", Msg("ready", ExtractFolderName(videoFiles), 0, Len(videoFiles), 0), 0)
             /\ runs' = EffectCleanup(runs, downloadUrl, 0, audioContextRef)
  /\ lastCall' = "none"
  /\ UNCHANGED <<finalMimeType, canvas, audioContextRef, processingRef,
                 supported>>

(***************************************************************************)
(* getSupportedMimeType                                                    *)
(***************************************************************************)
\* a negotiator that asks for plain mp4 before the preferred format
getSupportedMimeTypePlainFirst ==
  IF PLAIN_MP4 \in supported THEN PLAIN_MP4
  ELSE IF PREFERRED_FORMAT \in supported THEN PREFERRED_FORMAT
  ELSE FALLBACK_FORMAT

getSupportedMimeType ==
  IF PREFERRED_FORMAT \in supported THEN PREFERRED_FORMAT
  ELSE IF PLAIN_MP4 \in supported THEN PLAIN_MP4
  ELSE FALLBACK_FORMAT

(***************************************************************************)
(* startProcessing: the pieces of its body.  An effect is the closure of   *)
(* the run together with the status and the processingRef it leaves.       *)
(***************************************************************************)
Eff(run, st, pref) == [run |-> run, status |-> st, processingRef |-> pref]

\* a progress that rounds down
ProgressFloor(i, n) == (100 * i) \div n

\* Math.round((i / n) * 100)
Progress(i, n) == (200 * i + n) \div (2 * n)

ClipStatus(i, fs) ==
  Status("processing", Msg("clip", "Processing clip", i + 1, Len(fs), fs[i + 1]),
         Progress(i, Len(fs)))

\* mediaRecorder.stop() behind its state guard; the stop event is queued
StopRecorder(run) ==
  IF run.recorder = "recording"
  THEN [run EXCEPT !.recorder = "inactive", !.stopPending = TRUE]
  ELSE run

\* error.message || 'Unknown error': a rejection with a string has no message
MessageOf(err) ==
  IF err.kind = "Error" /\ err.text # "" THEN err.text ELSE "Unknown error"

\* a session that still holds a resource of the page
Holding(s) == s.attached \/ s.urlLive \/ s.raf \/ s.connected

RECURSIVE HoldingOnly(_)
HoldingOnly(ss) ==
  IF ss = <<>> THEN <<>>
  ELSE IF Holding(Head(ss)) THEN <<Head(ss)>> \o HoldingOnly(Tail(ss))
       ELSE HoldingOnly(Tail(ss))

\* a closure whose last event has run is unreachable: what stays of it is
\* what the page still holds (its audio context, its blob while the URL
\* lives, the sessions it never tore down) and the way it left the loop
Retire(run) ==
  IF run.pc \in {"caught", "stopped"} /\ ~run.stopPending
  THEN [NoRun EXCEPT !.pc = "gone", !.audioCtx = run.audioCtx,
                     !.blob = run.blob, !.sess = HoldingOnly(run.sess),
                     !.exit = run.exit]
  ELSE run

\* a catch that skips the failed clip and goes on with the next one
CatchAndGoOn(run, err) ==
  IF run.pc = "awaitClip"
  THEN [run |-> [run EXCEPT !.i = @ + 1, !.sess = Append(@, NewSession(run.files[1]))],
        status |-> Status("error", Msg("error", MessageOf(err), 0, 0, 0), 0),
        processingRef |-> TRUE]
  ELSE [run |-> Retire([run EXCEPT !.pc = "caught", !.exit = "failed"]),
        status |-> Status("error", Msg("error", MessageOf(err), 0, 0, 0), 0),
        processingRef |-> FALSE]

\* the catch block
Catch(run, err) ==
  Eff(Retire(StopRecorder([run EXCEPT !.pc = "caught", !.exit = "failed"])),
      Status("error", Msg("error", MessageOf(err), 0, 0, 0), 0),
      FALSE)

\* a loop head that does not read processingRef
LoopStepNoCancel(run, st, pref) ==
  IF run.i < Len(run.files)
  THEN [run |-> [run EXCEPT !.pc = "awaitClip",
                            !.sess = Append(@, NewSession(run.files[run.i + 1]))],
        status |-> Status("processing",
                          Msg("clip", "Processing clip", run.i + 1,
                              Len(run.files), run.files[run.i + 1]),
                          (200 * run.i + Len(run.files)) \div (2 * Len(run.files))),
        processingRef |-> pref]
  ELSE [run |-> [run EXCEPT !.pc = "stopped", !.exit = "finished",
                            !.recorder = "inactive", !.stopPending = TRUE],
        status |-> st, processingRef |-> pref]

\* the head of the for loop at index run.i, up to the await of the session
LoopStep(run, st, pref) ==
  IF run.i < Len(run.files) /\ pref
  THEN Eff([run EXCEPT !.pc = "awaitClip",
                       !.sess = Append(@, NewSession(run.files[run.i + 1]))],
           ClipStatus(run.i, run.files), pref)
  ELSE Eff(Retire(StopRecorder([run EXCEPT
                                  !.pc = "stopped",
                                  !.exit = IF run.i < Len(run.files)
                                           THEN "cancelled" ELSE "finished"])),
           st, pref)

\* from createMediaStreamDestination to the first await of the loop; the
\* MediaRecorder constructor throws NotSupportedError on an unsupported type
SetupRecorder(run, st, pref) ==
  IF run.mimeType \notin supported
  THEN Catch(run, [kind |-> "Error", text |-> "NotSupportedError", clip |-> 0])
  ELSE LoopStep([run EXCEPT !.recorder = "recording", !.dimensionsSet = FALSE,
                            !.i = 0],
                st, pref)

\* a cleanup that forgets the audio source and the object URL
cleanupLeaky(s) == [s EXCEPT !.raf = FALSE, !.attached = FALSE]

\* a cleanup that leaves the frame request pending
cleanupNoCancel(s) ==
  [s EXCEPT !.connected = FALSE, !.attached = FALSE, !.urlLive = FALSE]

\* cleanup() of a session
cleanup(s) ==
  [s EXCEPT !.raf = FALSE, !.connected = FALSE, !.attached = FALSE,
            !.urlLive = FALSE]

Apply(r, eff) ==
  /\ runs' = [runs EXCEPT ![r] = eff.run]
  /\ status' = eff.status
  /\ processingRef' = eff.processingRef

InitStatus ==
  Status("processing", Msg("init", "Initializing processing engine...", 0, 0, 0), 0)

\* an empty list reported as an error instead of the silent return
startProcessingReturnError ==
  /\ files = <<>>
  /\ lastCall' = "returned"
  /\ status' = Status("error", Msg("novideo", "No clips", 0, 0, 0), 0)
  /\ UNCHANGED <<files, folderName, downloadUrl, finalMimeType, canvas,
                 audioContextRef, processingRef, supported, runs>>

\* the guard of startProcessing failing: files.length === 0
startProcessingReturn ==
  /\ files = <<>>
  /\ lastCall' = "returned"
  /\ UNCHANGED <<files, folderName, status, downloadUrl, finalMimeType, canvas,
                 audioContextRef, processingRef, supported, runs>>

\* the Start Merge button, rendered while files.length > 0 and the state is idle
startProcessing ==
  /\ files # <<>>
  /\ status.state = "idle"
  /\ nRuns < MaxRuns
  /\ \E suspended \in BOOLEAN :
       LET r == nRuns + 1
           mimeType == getSupportedMimeType
           run == [NoRun EXCEPT !.files = files, !.mimeType = mimeType,
                                !.audioCtx = IF suspended THEN "suspended"
                                             ELSE "running"]
       IN /\ IF suspended
             THEN Apply(r, Eff([run EXCEPT !.pc = "resuming"], InitStatus, TRUE))
             ELSE Apply(r, SetupRecorder(run, InitStatus, TRUE))
          /\ finalMimeType' = mimeType
          /\ audioContextRef' = r
  /\ lastCall' = "started"
  /\ UNCHANGED <<files, folderName, downloadUrl, canvas, supported>>

\* await audioCtx.resume() settles
ResumeDone(r) ==
  /\ runs[r].pc = "resuming"
  /\ Apply(r, SetupRecorder([runs[r] EXCEPT !.audioCtx = "running"],
                            status, processingRef))
  /\ UNCHANGED <<files, folderName, downloadUrl, finalMimeType, canvas,
                 audioContextRef, supported, lastCall>>

(***************************************************************************)
(* The events of the current session of run r.                             *)
(***************************************************************************)
onloadedmetadata(r) ==
  /\ Awaiting(r)
  /\ Cur(runs[r]).stage = "loading"
  /\ LET run == SetCur(runs[r], [Cur(runs[r]) EXCEPT !.stage = "metadata"])
     IN IF ~run.dimensionsSet
        THEN /\ canvas' = [canvas EXCEPT !.width = VideoWidth(Cur(run).clip),
                                         !.height = VideoHeight(Cur(run).clip)]
             /\ runs' = [runs EXCEPT ![r] = [run EXCEPT !.dimensionsSet = TRUE]]
        ELSE /\ canvas' = canvas
             /\ runs' = [runs EXCEPT ![r] = run]
  /\ UNCHANGED <<files, folderName, status, downloadUrl, finalMimeType,
                 audioContextRef, processingRef, supported, lastCall>>

\* a canplay handler without the try around the audio source: its
\* failure rejects the session
oncanplayAudioFatal(r) ==
  /\ Awaiting(r)
  /\ Cur(runs[r]).stage = "metadata"
  /\ \E audioOk \in BOOLEAN :
       /\ audioOk => runs[r].audioCtx # "closed"
       /\ IF audioOk
          THEN /\ runs' = [runs EXCEPT ![r] =
                             SetCur(runs[r], [Cur(runs[r]) EXCEPT
                                                !.stage = "starting",
                                                !.connected = TRUE])]
               /\ UNCHANGED <<status, processingRef>>
          ELSE Apply(r, Catch(SetCur(runs[r], [cleanup(Cur(runs[r])) EXCEPT
                                                 !.stage = "failed"]),
                              [kind |-> "Error", text |-> "InvalidStateError",
                               clip |-> 0]))
  /\ UNCHANGED <<files, folderName, downloadUrl, finalMimeType, canvas,
                 audioContextRef, supported, lastCall>>

\* createMediaElementSource and connect inside their try, then video.play();
\* a closed context fails the connection, a live one may
oncanplay(r) ==
  /\ Awaiting(r)
  /\ Cur(runs[r]).stage = "metadata"
  /\ \E audioOk \in BOOLEAN :
       /\ audioOk => runs[r].audioCtx # "closed"
       /\ runs' = [runs EXCEPT ![r] =
                     SetCur(runs[r], [Cur(runs[r]) EXCEPT
                                        !.stage = "starting",
                                        !.connected = audioOk])]
  /\ UNCHANGED <<files, folderName, status, downloadUrl, finalMimeType, canvas,
                 audioContextRef, processingRef, supported, lastCall>>

\* drawFrame while the video plays: one copy, the next tick requested
drawFrame(r, k, s) ==
  IF s.stage # "playing" THEN <<s, canvas>>
  ELSE <<[s EXCEPT !.raf = TRUE], [canvas EXCEPT !.frame = <<r, k>>]>>

\* video.play() resolves: the first drawFrame call
PlayResolved(r) ==
  /\ Awaiting(r)
  /\ Cur(runs[r]).stage = "starting"
  /\ LET d == drawFrame(r, Len(runs[r].sess),
                          [Cur(runs[r]) EXCEPT !.stage = "playing"])
     IN /\ runs' = [runs EXCEPT ![r] = SetCur(runs[r], d[1])]
        /\ canvas' = d[2]
  /\ UNCHANGED <<files, folderName, status, downloadUrl, finalMimeType,
                 audioContextRef, processingRef, supported, lastCall>>

\* video.play() rejects: cleanup, reject(err), the catch block
PlayRejected(r) ==
  /\ Awaiting(r)
  /\ Cur(runs[r]).stage = "starting"
  /\ Apply(r, Catch(SetCur(runs[r], [cleanup(Cur(runs[r])) EXCEPT !.stage = "failed"]),
                    [kind |-> "Error", text |-> "NotAllowedError",
                     clip |-> 0]))
  /\ UNCHANGED <<files, folderName, downloadUrl, finalMimeType, canvas,
                 audioContextRef, supported, lastCall>>

\* the requestAnimationFrame callback of session k of run r
AnimationFrame(r, k) ==
  /\ k \in DOMAIN runs[r].sess
  /\ runs[r].sess[k].raf
  /\ LET d == drawFrame(r, k, [runs[r].sess[k] EXCEPT !.raf = FALSE])
     IN /\ runs' = [runs EXCEPT ![r].sess[k] = d[1]]
        /\ canvas' = d[2]
  /\ UNCHANGED <<files, folderName, status, downloadUrl, finalMimeType,
                 audioContextRef, processingRef, supported, lastCall>>

\* video.onended: cleanup, resolve, the loop goes on with the next index
onended(r) ==
  /\ Awaiting(r)
  /\ Cur(runs[r]).stage = "playing"
  /\ LET run == SetCur(runs[r], [cleanup(Cur(runs[r])) EXCEPT !.stage = "ended"])
     IN Apply(r, LoopStep([run EXCEPT !.i = @ + 1], status, processingRef))
  /\ UNCHANGED <<files, folderName, downloadUrl, finalMimeType, canvas,
                 audioContextRef, supported, lastCall>>

\* video.onerror: cleanup, reject with a string, the catch block
onerror(r) ==
  /\ Awaiting(r)
  /\ Cur(runs[r]).stage \in {"loading", "metadata", "starting", "playing"}
  /\ Apply(r, Catch(SetCur(runs[r], [cleanup(Cur(runs[r])) EXCEPT !.stage = "failed"]),
                    [kind |-> "string", text |-> "Error playing file",
                     clip |-> Cur(runs[r]).clip]))
  /\ UNCHANGED <<files, folderName, downloadUrl, finalMimeType, canvas,
                 audioContextRef, supported, lastCall>>

(***************************************************************************)
(* The events of the recorder of run r.                                    *)
(***************************************************************************)
\* a handler that puts the new chunk in front of the log
PushChunkInFront(run, size) ==
  [run EXCEPT !.emitted = @ + 1,
              !.chunks = IF size > 0 THEN <<run.emitted + 1>> \o @ ELSE @]

\* chunks.push behind its size guard; a recorder started without a timeslice
\* delivers data before its stop only when the runtime cuts the recording,
\* and then the blob holds data; the blob of the stop task may be empty
PushChunk(run, size) ==
  [run EXCEPT !.emitted = @ + 1,
              !.chunks = IF size > 0 THEN Append(@, run.emitted + 1) ELSE @]

ondataavailable(r) ==
  /\ runs[r].recorder = "recording"
  /\ runs[r].emitted < MaxChunks
  /\ runs' = [runs EXCEPT ![r] = PushChunk(runs[r], 1)]
  /\ UNCHANGED <<files, folderName, status, downloadUrl, finalMimeType, canvas,
                 audioContextRef, processingRef, supported, lastCall>>

\* a stop callback that tags the blob with a fixed type
StopBodyFixedType(run) ==
  [run EXCEPT !.stopPending = FALSE,
              !.blob = [parts |-> run.chunks, type |-> FALLBACK_FORMAT],
              !.audioCtx = "closed"]

\* the body of mediaRecorder.onstop on the closure run
StopBody(run) ==
  [run EXCEPT !.stopPending = FALSE,
              !.blob = [parts |-> run.chunks, type |-> run.mimeType],
              !.audioCtx = "closed"]

CompletedStatus ==
  Status("completed", Msg("complete", "Processing complete!", 0, 0, 0), 100)

\* the task stop() queued: the last dataavailable, then the stop event
onstop(r) ==
  /\ runs[r].stopPending
  /\ \E size \in {0, 1} :
       runs' = EffectCleanup([runs EXCEPT ![r] =
                                Retire(StopBody(PushChunk(runs[r], size)))],
                             downloadUrl, r, audioContextRef)
  /\ downloadUrl' = r
  /\ status' = CompletedStatus
  /\ processingRef' = FALSE
  /\ UNCHANGED <<files, folderName, finalMimeType, canvas, audioContextRef,
                 supported, lastCall>>

(***************************************************************************)
(* The Start Over button, rendered while completed with a download URL.    *)
(***************************************************************************)
StartOver ==
  /\ status.state = "completed"
  /\ downloadUrl # 0
  /\ files' = <<>>
  /\ downloadUrl' = 0
  /\ status' = Status("idle", NoMessage, 0)
  /\ runs' = EffectCleanup(runs, downloadUrl, 0, audioContextRef)
  /\ UNCHANGED <<folderName, finalMimeType, canvas, audioContextRef,
                 processingRef, supported, lastCall>>

Next ==
  \/ \E fileList \in FileLists : handleFolderSelect(fileList)
  \/ startProcessingReturn
  \/ startProcessing
  \/ StartOver
  \/ \E r \in RunIds :
       \/ ResumeDone(r)
       \/ onloadedmetadata(r)
       \/ oncanplay(r)
       \/ PlayResolved(r)
       \/ PlayRejected(r)
       \/ \E k \in 1 .. MaxFiles : AnimationFrame(r, k)
       \/ onended(r)
       \/ onerror(r)
       \/ ondataavailable(r)
       \/ onstop(r)

Spec == Init /\ [][Next]_vars

(***************************************************************************)
(* Properties.                                                             *)
(***************************************************************************)
Live(r) == runs[r].pc \notin {"unused", "gone"}

Settled(s) == s.stage \in {"ended", "failed"}

\* the step is the stop task of run r
StopTaskOf(r) == runs[r].stopPending /\ ~runs'[r].stopPending

\* C1: in every run the sessions are created in list order, one per clip,
\* and whenever a session exists every earlier session of the run has ended
\* and is torn down (no frame request, no audio connection, no video
\* element, no object URL); a finished run holds no session resource.
C1_SessionsInListOrder ==
  \A r \in RunIds :
    LET run == runs[r]
        n == Len(run.sess)
    IN /\ run.pc = "gone" => run.sess = <<>>
       /\ Live(r) =>
            /\ n <= Len(run.files)
            /\ \A k \in 1 .. n :
                 /\ run.sess[k].clip = run.files[k]
                 /\ k < n => run.sess[k].stage = "ended" /\ ~Holding(run.sess[k])
            /\ run.pc = "awaitClip" => n = run.i + 1 /\ ~Settled(run.sess[n])

C1_Witness ==
  \E r \in RunIds :
    /\ runs[r].pc = "awaitClip"
    /\ Len(runs[r].sess) = 2
    /\ runs[r].sess[1].stage = "ended"
    /\ runs[r].sess[2].stage = "playing"

\* C2: the stop task of a run that failed sets no artifact and does not
\* move the phase to completed.
C2_NoArtifactAfterFailure ==
  [][\A r \in RunIds :
       (runs[r].exit = "failed" /\ StopTaskOf(r)) =>
          /\ downloadUrl' = downloadUrl
          /\ status'.state # "completed"]_vars

\* C3: a step that leaves a session of a run failed creates no session in
\* that run, and a run that has failed never gets another session.
C3_NoSessionAfterFailure ==
  [][\A r \in RunIds :
       /\ (\E k \in DOMAIN runs'[r].sess : runs'[r].sess[k].stage = "failed")
            => Len(runs'[r].sess) <= Len(runs[r].sess)
       /\ runs[r].exit = "failed" =>
            /\ runs'[r].exit = "failed"
            /\ runs'[r].pc \in {"caught", "gone"}
            /\ Len(runs'[r].sess) <= Len(runs[r].sess)]_vars

C3_Witness ==
  \E r \in RunIds :
    /\ runs[r].pc = "caught"
    /\ Len(runs[r].sess) < Len(runs[r].files)
    /\ Cur(runs[r]).stage = "failed"

\* C4 as claimed: an invocation of startProcessing with an empty list
\* leaves the phase error with the no-clips message.
C4_EmptyStartIsError ==
  [][(files = <<>> /\ lastCall' = "returned" /\ lastCall # "returned") =>
        /\ status'.state = "error"
        /\ status'.message.kind = "novideo"]_vars

\* C4 as amended: an invocation of startProcessing with an empty list
\* returns and changes neither the run state nor anything else, so no
\* recorder and no audio context is created; the error with the no-video
\* message is written by the folder selection that holds no video file,
\* which creates no recorder and no audio context either.
C4_EmptyStartReturns ==
  [][/\ (files = <<>> /\ lastCall' = "returned" /\ lastCall # "returned") =>
          /\ status' = status
          /\ runs' = runs
          /\ audioContextRef' = audioContextRef
          /\ processingRef' = processingRef
     /\ (status'.message.kind = "novideo" /\ status' # status) =>
          /\ status'.state = "error"
          /\ runs' = runs
          /\ audioContextRef' = audioContextRef]_vars

C4_Witness == lastCall = "returned" /\ files = <<>> /\ status.state = "idle"

\* C5: the stop task of a run whose clips all played to their end leaves
\* the phase completed with progress 100 and the artifact of that run, whose
\* type is the type the negotiator returns; until then the stop is queued.
C5_AllPlayedCompletes ==
  [][\A r \in RunIds :
       /\ (runs[r].exit = "finished" /\ Live(r)) =>
            /\ runs[r].i = Len(runs[r].files)
            /\ runs[r].stopPending
            /\ \A k \in DOMAIN runs[r].sess : runs[r].sess[k].stage = "ended"
       /\ (runs[r].exit = "finished" /\ StopTaskOf(r)) =>
            /\ status'.state = "completed"
            /\ status'.progress = 100
            /\ downloadUrl' = r
            /\ runs'[r].blob # NoBlob
            /\ runs'[r].blob.type = getSupportedMimeType]_vars

C5_Witness ==
  \E r \in RunIds :
    /\ runs[r].pc = "gone"
    /\ runs[r].exit = "finished"
    /\ downloadUrl = r
    /\ status.state = "completed"
    /\ status.progress = 100
    /\ runs[r].blob.type = getSupportedMimeType

\* C6: once a run has assigned the canvas dimensions they equal the native
\* resolution of its first clip and no step changes them while the run is
\* in progress.
C6_DimensionsFixedDuringRun ==
  [][\A r \in RunIds :
       (Live(r) /\ runs[r].dimensionsSet) =>
          /\ canvas.width = VideoWidth(runs[r].files[1])
          /\ canvas.height = VideoHeight(runs[r].files[1])
          /\ canvas'.width = canvas.width
          /\ canvas'.height = canvas.height]_vars

\* the step is a loop boundary of run r: the await of a session or of
\* resume() is over and the loop head reads processingRef
Boundary(r) ==
  \/ runs'[r].i = runs[r].i + 1
  \/ runs[r].pc = "resuming" /\ runs'[r].pc # "resuming" /\ runs'[r].exit # "failed"

\* C7: a run that finds processingRef cleared at the boundary before a clip
\* starts no session for it or for a later clip, leaves its earlier sessions
\* as they are, writes no error, stops its recorder, and never enters the
\* catch block; its stop task assembles the chunks captured so far and
\* leaves the phase completed.
C7_CancelledRunStopsCleanly ==
  [][\A r \in RunIds :
       /\ (Boundary(r) /\ ~processingRef /\ runs'[r].i < Len(runs[r].files)) =>
            /\ runs'[r].exit = "cancelled"
            /\ runs'[r].pc = "stopped"
            /\ Len(runs'[r].sess) = Len(runs[r].sess)
            /\ \A k \in 1 .. Len(runs[r].sess) - 1 : runs'[r].sess[k] = runs[r].sess[k]
            /\ runs'[r].recorder = "inactive" /\ runs'[r].stopPending
            /\ status' = status
       /\ runs[r].exit = "cancelled" =>
            /\ runs'[r].exit = "cancelled"
            /\ runs'[r].pc \in {"stopped", "gone"}
            /\ Len(runs'[r].sess) <= Len(runs[r].sess)
       /\ (runs[r].exit = "cancelled" /\ StopTaskOf(r)) =>
            /\ runs'[r].blob.type = runs[r].mimeType
            /\ SubSeq(runs'[r].blob.parts, 1, Len(runs[r].chunks)) = runs[r].chunks
            /\ downloadUrl' = r
            /\ status'.state = "completed"]_vars

C7_Witness ==
  \E r \in RunIds :
    /\ runs[r].exit = "cancelled"
    /\ runs[r].pc = "stopped"
    /\ runs[r].stopPending
    /\ Len(runs[r].sess) >= 1
    /\ Len(runs[r].sess) < Len(runs[r].files)
    /\ runs[r].chunks # <<>>

\* C8: the last event of a run that failed leaves the phase error with a
\* message that describes the cause.
C8_FatalFailureEndsInError ==
  [][\A r \in RunIds :
       (runs[r].pc # "gone" /\ runs'[r].pc = "gone" /\ runs'[r].exit = "failed") =>
          /\ status'.state = "error"
          /\ status'.message.kind = "error"
          /\ status'.message.text # "Unknown error"]_vars

\* the sessions of all runs, as (run, index) pairs
Sessions ==
  {p \in RunIds \X (1 .. MaxFiles + 1) : p[2] \in DOMAIN runs[p[1]].sess}

\* C9: at most one session is decoding and at most one audio source is
\* connected.
C9_OneDecoderOneSource ==
  /\ Cardinality({p \in Sessions : ~Settled(runs[p[1]].sess[p[2]])}) <= 1
  /\ Cardinality({p \in Sessions : runs[p[1]].sess[p[2]].connected}) <= 1

\* C10: the phase changes only from idle to processing by a start, from
\* processing to completed by the stop task of a run that did not fail,
\* from processing to error by the failure of a run, and from completed or
\* error to idle with the artifact reference cleared.
C10_PhaseTransitions ==
  [][status'.state # status.state =>
       \/ /\ status.state = "idle" /\ status'.state = "processing"
          /\ nRuns' = nRuns + 1
       \/ /\ status.state = "processing" /\ status'.state = "completed"
          /\ \E r \in RunIds : StopTaskOf(r) /\ runs[r].exit # "failed"
       \/ /\ status.state = "processing" /\ status'.state = "error"
          /\ \E r \in RunIds : runs[r].exit # "failed" /\ runs'[r].exit = "failed"
       \/ /\ status.state \in {"completed", "error"} /\ status'.state = "idle"
          /\ downloadUrl' = 0]_vars

(***************************************************************************)
(* The negotiation on every runtime: the component up to the first media   *)
(* event, on every set of formats a runtime can support.                   *)
(***************************************************************************)
NegotiationInit ==
  /\ files = <<>>
  /\ folderName = "video"
  /\ status = Status("idle", NoMessage, 0)
  /\ downloadUrl = 0
  /\ finalMimeType = ""
  /\ canvas = [width |-> DefaultCanvasWidth, height |-> DefaultCanvasHeight,
               frame |-> <<0, 0>>]
  /\ audioContextRef = 0
  /\ processingRef = FALSE
  /\ supported \in SUBSET Formats
  /\ runs = [r \in RunIds |-> NoRun]
  /\ lastCall = "none"

NegotiationNext ==
  \/ \E fileList \in FileLists : handleFolderSelect(fileList)
  \/ startProcessing
  \/ \E r \in RunIds : ResumeDone(r)

NegotiationSpec == NegotiationInit /\ [][NegotiationNext]_vars

\* the preference order of the claim
PreferenceOrder == <<PREFERRED_FORMAT, PLAIN_MP4, FALLBACK_FORMAT>>

\* C11: on every runtime a started run has a format of the preference
\* order: the first one the runtime supports, and the fallback when it
\* supports none.
C11_FirstSupportedFormat ==
  /\ lastCall = "started" => finalMimeType \in Formats
  /\ finalMimeType # "" =>
       /\ \A i \in 1 .. 3 :
            (/\ PreferenceOrder[i] \in supported
             /\ \A j \in 1 .. i - 1 : PreferenceOrder[j] \notin supported)
              => finalMimeType = PreferenceOrder[i]
       /\ supported = {} => finalMimeType = FALLBACK_FORMAT

C11_Witness ==
  /\ lastCall = "started"
  /\ supported = {PLAIN_MP4, FALLBACK_FORMAT}
  /\ finalMimeType = PLAIN_MP4

\* C12: while a run lives its chunk log only grows at its end, and the
\* blob its stop task builds is the log in emission order, followed by the
\* data of the last emission when it has any, under the negotiated type.
C12_ArtifactIsChunkLog ==
  [][\A r \in RunIds :
       /\ (Live(r) /\ runs'[r].pc # "gone") =>
            /\ Len(runs'[r].chunks) >= Len(runs[r].chunks)
            /\ SubSeq(runs'[r].chunks, 1, Len(runs[r].chunks)) = runs[r].chunks
            /\ runs'[r].emitted >= runs[r].emitted
       /\ StopTaskOf(r) =>
            LET parts == runs'[r].blob.parts
                n == Len(runs[r].chunks)
            IN /\ runs'[r].blob.type = runs[r].mimeType
               /\ Len(parts) \in {n, n + 1}
               /\ SubSeq(parts, 1, n) = runs[r].chunks
               /\ Len(parts) = n + 1 => parts[n + 1] = runs[r].emitted + 1
               /\ \A j \in 1 .. Len(parts) - 1 : parts[j] < parts[j + 1]]_vars

C12_Witness ==
  \E r \in RunIds :
    /\ runs[r].pc = "gone"
    /\ downloadUrl = r
    /\ runs[r].blob.parts = <<1, 2>>
    /\ runs[r].blob.type = PREFERRED_FORMAT

\* the number embedded in the name of file f, after its first character
EmbeddedNumber(f) == RunValue(FileName(f), 2, Len(FileName(f)) - 1, 0)

\* C13: the clip list handleFolderSelect builds holds video files only,
\* and of two clips whose names differ only in the embedded number the one
\* with the smaller number comes first (C2 before c10).
C13_NaturalOrder ==
  /\ \A i \in DOMAIN files : FileType(files[i]) = "video/mp4"
  /\ \A i, j \in DOMAIN files :
       (i < j /\ BaseRank(FileName(files[i])[1]) = BaseRank(FileName(files[j])[1]))
          => EmbeddedNumber(files[i]) <= EmbeddedNumber(files[j])

C13_Witness == files = <<2, 1>>

\* C14: the step in which a session of a run fails (its error event or
\* the rejection of play) leaves an error message that names the failing
\* clip and the cause.
C14_ErrorNamesClipAndCause ==
  [][\A r \in RunIds :
       (runs[r].pc = "awaitClip" /\ runs'[r].exit = "failed") =>
          /\ status'.state = "error"
          /\ status'.message.kind = "error"
          /\ status'.message.clip = Cur(runs[r]).clip
          /\ status'.message.text # "Unknown error"]_vars

(***************************************************************************)
(* The progress of one run over clip lists of up to MaxClips clips: the    *)
(* component with a folder selected, and the events of undisturbed         *)
(* playback and recording.                                                 *)
(***************************************************************************)
\* the clip lists handleFolderSelect builds from the first files of a folder
ClipLists ==
  {SortFiles(FilterVideo([k \in 1 .. n |-> k])) : n \in 1 .. MaxClips + 1}

ProgressInit ==
  /\ files \in ClipLists
  /\ folderName = "clips"
  /\ status = Status("idle", NoMessage, 0)
  /\ downloadUrl = 0
  /\ finalMimeType = ""
  /\ canvas = [width |-> DefaultCanvasWidth, height |-> DefaultCanvasHeight,
               frame |-> <<0, 0>>]
  /\ audioContextRef = 0
  /\ processingRef = FALSE
  /\ supported \in Runtimes
  /\ runs = [r \in RunIds |-> NoRun]
  /\ lastCall = "none"

ProgressNext ==
  \/ startProcessing
  \/ \E r \in RunIds :
       \/ ResumeDone(r)
       \/ onloadedmetadata(r)
       \/ oncanplay(r)
       \/ PlayResolved(r)
       \/ \E k \in 1 .. MaxClips : AnimationFrame(r, k)
       \/ onended(r)
       \/ ondataavailable(r)
       \/ onstop(r)

ProgressSpec == ProgressInit /\ [][ProgressNext]_vars

\* C15 as claimed: the progress at the start of clip k of n is
\* floor((k - 1) / n * 100).
C15_ProgressIsFloor ==
  status.message.kind = "clip" =>
    status.progress = (100 * (status.message.k - 1)) \div status.message.n

\* C15: the progress at the start of clip k of n is the integer nearest to
\* (k - 1) / n * 100, the upper one of two equally near.
C15_ProgressIsRounded ==
  status.message.kind = "clip" =>
    LET i == status.message.k - 1
        n == status.message.n
        p == status.progress
    IN /\ n >= 1
       /\ i \in 0 .. n - 1
       /\ 200 * i - n < 2 * p * n
       /\ 2 * p * n <= 200 * i + n

C15_Witness ==
  /\ status.message.kind = "clip"
  /\ status.message.k = 3
  /\ status.message.n = 3
  /\ status.progress = 67

\* C16: a session that has settled (ended or failed) holds no frame
\* request, no audio connection, no video element and no object URL, and a
\* step that copies a frame copies it from a session that has not settled
\* and plays.
C16_TeardownBeforeSettle ==
  [][/\ \A r \in RunIds : \A k \in DOMAIN runs'[r].sess :
          Settled(runs'[r].sess[k]) => ~Holding(runs'[r].sess[k])
     /\ canvas'.frame # canvas.frame =>
          LET r == canvas'.frame[1]
              k == canvas'.frame[2]
          IN /\ r \in RunIds
             /\ k \in DOMAIN runs[r].sess
             /\ ~Settled(runs[r].sess[k])
             /\ runs'[r].sess[k].stage = "playing"]_vars

C16_Witness ==
  \E r \in RunIds :
    /\ runs[r].pc = "caught"
    /\ Cur(runs[r]).stage = "failed"
    /\ ~Holding(Cur(runs[r]))
    /\ canvas.frame = <<r, Len(runs[r].sess)>>

\* C17: a canplay step whose audio source fails leaves the session waiting
\* for play() with the phase, the message and the run as they were; a
\* session that fails before play() is called fails by the error event of
\* its element, never by the audio source; and a session that plays without
\* an audio connection ends like any other: the run does not fail and, when
\* clips remain and the run is not cancelled, the next session starts.
C17_AudioFailureIsNotFatal ==
  [][\A r \in RunIds :
       /\ (Awaiting(r) /\ Cur(runs[r]).stage = "metadata"
             /\ Len(runs'[r].sess) = Len(runs[r].sess)
             /\ Cur(runs'[r]).stage = "starting" /\ ~Cur(runs'[r]).connected) =>
            /\ status' = status
            /\ processingRef' = processingRef
            /\ runs'[r].pc = "awaitClip"
            /\ runs'[r].exit = "none"
       /\ (Awaiting(r) /\ Cur(runs[r]).stage \in {"loading", "metadata"}
             /\ runs'[r].exit = "failed") =>
            status'.message.text = "Unknown error"
       /\ (Awaiting(r) /\ Cur(runs[r]).stage = "playing"
             /\ ~Cur(runs[r]).connected /\ runs'[r].i = runs[r].i + 1) =>
            /\ runs'[r].exit # "failed"
            /\ status'.state = "error" => status.state = "error"
            /\ (processingRef /\ runs'[r].i < Len(runs[r].files)) =>
                 /\ runs'[r].pc = "awaitClip"
                 /\ Len(runs'[r].sess) = Len(runs[r].sess) + 1
                 /\ Cur(runs'[r]).clip = runs[r].files[runs'[r].i + 1]]_vars

C17_Witness ==
  \E r \in RunIds :
    /\ runs[r].pc = "awaitClip"
    /\ Len(runs[r].sess) = 2
    /\ runs[r].sess[1].stage = "ended"
    /\ runs[r].sess[2].stage = "playing"
    /\ ~runs[r].sess[2].connected
    /\ runs[r].sess[2].raf
    /\ canvas.frame = <<r, 2>>
    /\ status.state = "processing"

\* C18: a run that has reached its end has closed the audio context it
\* created, and no step closes the context of a run that is in progress.
C18_AudioContextClosedOnce ==
  [][\A r \in RunIds :
       /\ runs'[r].pc = "gone" => runs'[r].audioCtx = "closed"
       /\ (Live(r) /\ runs[r].audioCtx # "closed" /\ runs'[r].audioCtx = "closed")
            => StopTaskOf(r)]_vars

\* C19: at most one run is in its clip loop or in the setup before it.
C19_OneRunActive ==
  Cardinality({r \in RunIds : runs[r].pc \in {"resuming", "awaitClip"}}) <= 1

\* C20: the artifact reference is set exactly when the phase is completed.
C20_ArtifactIffCompleted == (downloadUrl # 0) <=> (status.state = "completed")

====
